---- MODULE Spec2Model ----
(***************************************************************************)
(* Model of js_alias_import.py: the alias table built by main(), the       *)
(* import-from matcher (_IMPORT_FROM_ALIAS_PATT), replaceMatch, the        *)
(* per-file _replaceAliases and the directory walk of _searchFiles.        *)
(*                                                                         *)
(* Text is a sequence of atoms.  Every atom stands for a fixed string      *)
(* ("import" for the six letters i-m-p-o-r-t, "js" for j-s, "/" for the    *)
(* slash, ...) and a text stands for the concatenation of its atoms.  The  *)
(* atoms are chosen so that a string has one reading as atoms only, hence  *)
(* two texts are equal exactly when the strings they stand for are equal.  *)
(***************************************************************************)
EXTENDS Integers, Sequences, FiniteSets, TLC

VARIABLES
    fs,             \* the entries under args.dir: path below the root, and kind
    args_alias,     \* args.alias: the raw "alias path" strings, in command-line order
    args_exts,      \* extensions: args.exts split on whitespace
    no_sub_dirs,    \* args.no_sub_dirs
    perm,           \* per regular file: "rw", "ro" (unwritable) or "none" (unreadable)
    disk0,          \* per regular file: its content when the run starts
    disk,           \* per regular file: its content now
    mpAliasPath,    \* the alias table, a dict: entries in insertion order
    pc,             \* where the run is
    visited,        \* entries the directory iterator has yielded so far
    handed,         \* files handed to _replaceAliases, in order
    cur,            \* the file _replaceAliases is writing, 0 when none
    updatedContent, \* the content _replaceAliases is about to write
    reports,        \* per file: the printed change report, NoReport when none
    writes,         \* per file: number of completed write_text calls
    calls           \* per file: the replaceMatch calls made on it (match, returned text)

vars == <<fs, args_alias, args_exts, no_sub_dirs, perm, disk0, disk, mpAliasPath, pc,
          visited, handed, cur, updatedContent, reports, writes, calls>>

(***************************************************************************)
(* Bounds of the model.                                                    *)
(***************************************************************************)
MaxAliases == 2     \* most --alias options on one command line
MaxStmts == 2       \* most statement pieces in one file text

(***************************************************************************)
(* Characters.                                                              *)
(***************************************************************************)
WS == {" ", "\n"}                                   \* what \s matches
Quotes == {"'", "\""}                               \* ['"]
WordAtoms == {"import", "from", "x", "y", "r", "s", "js", "JS", "json", "ts", "Y", "n"}
IsWord(c) == c \in WordAtoms                        \* \w, for \b

\* str.lower() on one atom
Lower(a) == IF a = "JS" THEN "js" ELSE IF a = "Y" THEN "y" ELSE a
LowerStr(s) == [i \in 1..Len(s) |-> Lower(s[i])]

\* s[p:] with p counted from 1
From(s, p) == SubSeq(s, p, Len(s))
\* s[p:p+len(k)] == k
IsPrefixAt(s, p, k) == /\ p + Len(k) - 1 <= Len(s)
                       /\ SubSeq(s, p, p + Len(k) - 1) = k

\* first position >= p holding a character outside cs, Len(s)+1 when none
RECURSIVE SkipAll(_, _, _)
SkipAll(s, p, cs) == IF p <= Len(s) /\ s[p] \in cs THEN SkipAll(s, p + 1, cs) ELSE p
\* first position >= p holding a character of cs, Len(s)+1 when none
RECURSIVE FindAny(_, _, _)
FindAny(s, p, cs) == IF p <= Len(s) /\ s[p] \notin cs THEN FindAny(s, p + 1, cs) ELSE p
\* last position <= p holding a character outside cs, 0 when none
RECURSIVE SkipBack(_, _, _)
SkipBack(s, p, cs) == IF p >= 1 /\ s[p] \in cs THEN SkipBack(s, p - 1, cs) ELSE p

\* str.rstrip('/'), str.strip('/')
RStripSlash(s) == SubSeq(s, 1, SkipBack(s, Len(s), {"/"}))
StripSlash(s) == LET r == RStripSlash(s) IN From(r, SkipAll(r, 1, {"/"}))

\* str.split(maxsplit=1): at most two fields; the second keeps its trailing blanks
Split1(s) ==
    LET a == SkipAll(s, 1, WS)
        b == FindAny(s, a, WS)
        c == SkipAll(s, b, WS)
    IN  IF a > Len(s) THEN <<>>
        ELSE IF c > Len(s) THEN <<SubSeq(s, a, b - 1)>>
        ELSE <<SubSeq(s, a, b - 1), From(s, c)>>

(***************************************************************************)
(* pathlib.PurePosixPath, as far as replaceMatch uses it: a path is its    *)
(* root ("", "/" or "//") and its parts; empty and "." components vanish.  *)
(***************************************************************************)
RECURSIVE SplitParts(_, _, _, _)
SplitParts(s, p, part, acc) ==
    LET keep == IF part = <<>> \/ part = <<".">> THEN acc ELSE Append(acc, part)
    IN  IF p > Len(s) THEN keep
        ELSE IF s[p] = "/" THEN SplitParts(s, p + 1, <<>>, keep)
        ELSE SplitParts(s, p + 1, Append(part, s[p]), acc)

PurePosixPath(s) ==
    LET n == SkipAll(s, 1, {"/"}) - 1
    IN  [root  |-> IF n = 2 THEN <<"/", "/">> ELSE IF n >= 1 THEN <<"/">> ELSE <<>>,
         parts |-> SplitParts(s, n + 1, <<>>, <<>>)]

RECURSIVE JoinParts(_, _)
JoinParts(parts, i) ==
    IF i > Len(parts) THEN <<>>
    ELSE (IF i > 1 THEN <<"/">> ELSE <<>>) \o parts[i] \o JoinParts(parts, i + 1)

\* str(path)
PathStr(p) == LET s == p.root \o JoinParts(p.parts, 1) IN IF s = <<>> THEN <<".">> ELSE s

\* path.name
PathName(p) == IF p.parts = <<>> THEN <<>> ELSE p.parts[Len(p.parts)]

\* last position of a dot in a name, 0 when none
RECURSIVE RFindDot(_, _)
RFindDot(name, i) == IF i >= 1 /\ name[i] # "." THEN RFindDot(name, i - 1) ELSE i

\* path.suffix: from the last dot on, unless the dot is first or last in the name
NameSuffix(name) ==
    LET i == RFindDot(name, Len(name))
    IN  IF 1 < i /\ i < Len(name) THEN From(name, i) ELSE <<>>
PathSuffix(p) == NameSuffix(PathName(p))

\* path.with_suffix(suffix); raises ValueError when the path has no name
WithSuffix(p, suffix) ==
    LET name == PathName(p)
        stem == SubSeq(name, 1, Len(name) - Len(NameSuffix(name)))
    IN  IF name = <<>> THEN [exc |-> TRUE, path |-> p]
        ELSE [exc |-> FALSE,
              path |-> [p EXCEPT !.parts[Len(p.parts)] = stem \o suffix]]

(***************************************************************************)
(* The alias table: a dict from alias to path, kept in insertion order.    *)
(***************************************************************************)
Keys(mp) == [i \in 1..Len(mp) |-> mp[i].alias]
HasKey(mp, key) == \E i \in 1..Len(mp) : mp[i].alias = key
\* mp[key], for a key of mp
Lookup(mp, key) == mp[CHOOSE i \in 1..Len(mp) : mp[i].alias = key].path

\* NormAlias without its rstrip: the alias token is stored as typed
NormAliasAsTyped(token) == token
\* the key main() stores for the alias token of a pair
NormAlias(token) == RStripSlash(token)
\* the value main() stores for the path token of a pair
NormPath(token) == <<"/">> \o StripSlash(token)

\* the loop of main() over the raw pairs, taken in the order `order`
RECURSIVE BuildTable(_, _, _)
BuildTable(order, i, mp) ==
    IF i > Len(order) THEN [st |-> "ok", mp |-> mp]
    ELSE LET pair == Split1(order[i])
         IN  IF Len(pair) < 2 THEN [st |-> "IndexError", mp |-> mp]
             ELSE LET key == NormAlias(pair[1])
                      value == NormPath(pair[2])
                  IN  IF HasKey(mp, key) THEN [st |-> "duplicate", mp |-> mp]
                      ELSE BuildTable(order, i + 1,
                                      Append(mp, [alias |-> key, path |-> value]))

\* set(args.alias)
Range(s) == {s[i] : i \in 1..Len(s)}
\* the orders in which a set may be iterated
Orders(S) == {o \in [1..Cardinality(S) -> S] : Range(o) = S}

(***************************************************************************)
(* _IMPORT_FROM_ALIAS_PATT, compiled with re.DOTALL | re.VERBOSE for the   *)
(* keys of the table, alternatives in key order.                           *)
(***************************************************************************)
NoMatch == [ok |-> FALSE]

\* \s+from\b matches at p
FromAt(t, p) ==
    /\ p <= Len(t)
    /\ t[p] \in WS
    /\ LET k == SkipAll(t, p, WS)
       IN  /\ k <= Len(t)
           /\ t[k] = "from"
           /\ (k = Len(t) \/ ~IsWord(t[k + 1]))

\* first position >= p where \s+from\b matches, Len(t)+1 when none: the tempered
\* dot of <stuff> stops there
RECURSIVE StuffEnd(_, _)
StuffEnd(t, p) == IF p > Len(t) \/ FromAt(t, p) THEN p ELSE StuffEnd(t, p + 1)

\* (?P<alias>..)(?P<relPath>(?:/[^'"]+)+?)\2 after the opening quote at q: the
\* first alternative, in key order, after which a relative path and the same quote
\* follow
RECURSIVE AliasAt(_, _, _, _)
AliasAt(t, q, keys, j) ==
    IF j > Len(keys) THEN NoMatch
    ELSE LET r == q + 1 + Len(keys[j])
             c == FindAny(t, r + 1, Quotes)
         IN  IF /\ IsPrefixAt(t, q + 1, keys[j])
                /\ r <= Len(t) /\ t[r] = "/"
                /\ c <= Len(t) /\ c >= r + 2 /\ t[c] = t[q]
             THEN [ok |-> TRUE, alias |-> keys[j], relPath |-> SubSeq(t, r, c - 1),
                   quote |-> t[q], end |-> c]
             ELSE AliasAt(t, q, keys, j + 1)

\* \s+from\b\s+(['"])(alias)(relPath)\2 at e
TailAt(t, e, keys) ==
    LET k == SkipAll(t, e, WS)          \* the keyword from
        q == SkipAll(t, k + 1, WS)      \* the opening quote
    IN  IF /\ FromAt(t, e)
           /\ k + 1 <= Len(t) /\ t[k + 1] \in WS
           /\ q <= Len(t) /\ t[q] \in Quotes
        THEN AliasAt(t, q, keys, 1)
        ELSE NoMatch

\* the whole pattern at i.  \s+ after import takes the whole blank run first
\* (stuff then runs to the first \s+from\b); when that fails and the run has two
\* blanks or more right before a from, it gives one back and stuff is empty.
MatchAt(t, i, keys) ==
    IF ~ (/\ t[i] = "import"
          /\ (i = 1 \/ ~IsWord(t[i - 1]))
          /\ i + 1 <= Len(t) /\ t[i + 1] \in WS)
    THEN NoMatch
    ELSE LET s == SkipAll(t, i + 1, WS)
             e == StuffEnd(t, s)
             greedy == TailAt(t, e, keys)
             back == IF s - (i + 1) >= 2 THEN TailAt(t, s - 1, keys) ELSE NoMatch
         IN  IF greedy.ok
             THEN [ok |-> TRUE, start |-> i, end |-> greedy.end,
                   stuffStart |-> s, stuff |-> SubSeq(t, s, e - 1),
                   quote |-> greedy.quote, alias |-> greedy.alias,
                   relPath |-> greedy.relPath, group0 |-> SubSeq(t, i, greedy.end)]
             ELSE IF back.ok
             THEN [ok |-> TRUE, start |-> i, end |-> back.end,
                   stuffStart |-> s - 1, stuff |-> <<>>,
                   quote |-> back.quote, alias |-> back.alias,
                   relPath |-> back.relPath, group0 |-> SubSeq(t, i, back.end)]
             ELSE NoMatch

(***************************************************************************)
(* replaceMatch and regex.sub.                                             *)
(***************************************************************************)
_KNOWN_EXTS == {<<".", "json">>, <<".", "js">>}

\* KnownExt without its lower(): the suffix is compared as written
KnownExtAsWritten(suffix) == suffix \in _KNOWN_EXTS
\* the test of replaceMatch on the suffix of the relative path
KnownExt(suffix) == LowerStr(suffix) \in _KNOWN_EXTS

\* Reassemble with a fixed double quote instead of the captured one
ReassembleDoubleQuoted(stuff, quote, alias, relPath) ==
    <<"import", " ">> \o stuff \o <<" ", "from", " ", "\"">> \o alias \o relPath \o <<"\"">>
\* the statement replaceMatch returns
Reassemble(stuff, quote, alias, relPath) ==
    <<"import", " ">> \o stuff \o <<" ", "from", " ", quote>> \o alias \o relPath \o <<quote>>

\* what replaceMatch returns for the match m: the text, the aliases it appended
\* to `changes`, and whether it raised
replaceMatch(mp, m) ==
    IF ~HasKey(mp, m.alias)
    THEN [exc |-> FALSE, text |-> m.group0, appended |-> <<>>]
    ELSE LET alias == PathStr(PurePosixPath(Lookup(mp, m.alias)))
             pthRelPath == PurePosixPath(m.relPath)
             changed == IF ~KnownExt(PathSuffix(pthRelPath))
                        THEN WithSuffix(pthRelPath, <<".", "js">>)
                        ELSE [exc |-> FALSE, path |-> pthRelPath]
         IN  [exc |-> changed.exc,
              text |-> Reassemble(m.stuff, m.quote, alias, PathStr(changed.path)),
              appended |-> <<m.alias>>]

\* regex.sub(replacer, t) from position i on: the matches are taken left to
\* right and do not overlap; text outside them is copied
RECURSIVE SubFrom(_, _, _, _)
SubFrom(mp, t, i, acc) ==
    IF i > Len(t) THEN acc
    ELSE LET m == MatchAt(t, i, Keys(mp))
         IN  IF ~m.ok
             THEN SubFrom(mp, t, i + 1, [acc EXCEPT !.text = Append(@, t[i])])
             ELSE LET r == replaceMatch(mp, m)
                      next == [exc |-> FALSE,
                               text |-> acc.text \o r.text,
                               changes |-> acc.changes \o r.appended,
                               calls |-> Append(acc.calls, [m |-> m, out |-> r.text])]
                  IN  IF r.exc THEN [acc EXCEPT !.exc = TRUE]
                      ELSE SubFrom(mp, t, m.end + 1, next)

RegexSub(mp, t) ==
    SubFrom(mp, t, 1, [exc |-> FALSE, text |-> <<>>, changes |-> <<>>, calls |-> <<>>])

(***************************************************************************)
(* The directory walk of _searchFiles.                                     *)
(***************************************************************************)
Entries == 1..Len(fs)
Files == {e \in Entries : fs[e].kind = "file"}          \* Path.is_file()
EntryName(e) == fs[e].path[Len(fs[e].path)]

\* str.lstrip('.')
LStripDot(s) == From(s, SkipAll(s, 1, {"."}))

\* pthDir.rglob('*') or pthDir.glob('*'): every descendant, or the direct children
Listed(include_subdirs) ==
    IF include_subdirs THEN Entries ELSE {e \in Entries : Len(fs[e].path) = 1}

\* IsCandidate with the suffix compared without case
IsCandidateAnyCase(e) ==
    /\ fs[e].kind = "file"
    /\ LowerStr(LStripDot(NameSuffix(EntryName(e)))) \in Range(args_exts)
\* the test of _searchFiles on one yielded path
IsCandidate(e) ==
    /\ fs[e].kind = "file"
    /\ LStripDot(NameSuffix(EntryName(e))) \in Range(args_exts)

\* ContentChanged with the comparison inverted
ContentChangedInverted(content, updated) == content = updated
\* ContentChanged dropped: every file is reported and written
ContentChangedAlways(content, updated) == TRUE
\* the test of _replaceAliases before it reports and writes
ContentChanged(content, updated) == content # updated

\* ReportLines stopping after its first line
ReportLinesFirstOnly(mp, changes, i) ==
    IF i > Len(changes) THEN <<>>
    ELSE <<[alias |-> changes[i], path |-> Lookup(mp, changes[i])]>>
\* the lines _replaceAliases prints for the list `changes`
RECURSIVE ReportLines(_, _, _)
ReportLines(mp, changes, i) ==
    IF i > Len(changes) THEN <<>>
    ELSE <<[alias |-> changes[i], path |-> Lookup(mp, changes[i])]>>
         \o ReportLines(mp, changes, i + 1)

NoReport == [printed |-> FALSE, lines |-> <<>>]
\* the run ended by an exception nothing catches
Raised == {"IndexError", "OSError", "ValueError"}
Terminal == {"done", "duplicate", "cancelled", "killed"} \cup Raised

(***************************************************************************)
(* The inputs.                                                              *)
(***************************************************************************)
\* sequences over S of length lo..hi
SeqsOf(S, lo, hi) == UNION {[1..n -> S] : n \in lo..hi}

RECURSIVE Concat(_, _)
Concat(ss, i) == IF i > Len(ss) THEN <<>> ELSE ss[i] \o Concat(ss, i + 1)

\* raw --alias values
PairXR    == <<"@", "x", " ", "/", "r">>                  \* "@x /r"
PairXR2   == <<"@", "x", "/", " ", "r", "/">>             \* "@x/ r/"
PairXS    == <<"@", "x", " ", "/", "s">>                  \* "@x /s"
PairYS    == <<"@", "y", "/", " ", "s", "/">>             \* "@y/ s/"
PairYRoot == <<"@", "y", " ", "/">>                       \* "@y /"
PairYRoot2 == <<"@", "y", " ", "/", "/">>                 \* "@y //"
PairRRY   == <<"/", "r", " ", "/", "r", "/", "y">>        \* "/r /r/y"
PairRR    == <<"/", "r", " ", "/", "r">>                  \* "/r /r"
PairEmpty == <<"/", " ", "/", "s">>                       \* "/ /s"
PairNoPath == <<"@", "x">>                                \* "@x"
PairXRS   == <<"@", "x", "/", "r", " ", "/", "s">>        \* "@x/r /s"
RawPairs == {PairXR, PairXR2, PairXS, PairYRoot, PairYRoot2, PairRRY, PairNoPath}

\* pieces of file text
StmtPlain == <<"import", " ", "x", " ", "from", " ", "'", "@", "x", "/", "y", "'">>
StmtMulti == <<"import", " ", " ", "x", "\n", "from", " ", "\"",
               "@", "x", "/", "y", ".", "ts", "\"">>
StmtJson == <<"import", " ", "y", " ", "from", " ", "\"",
              "@", "x", "/", "y", ".", "json", "\"">>
StmtUpper == <<"import", " ", "x", " ", "from", " ", "'",
               "@", "y", "/", "x", "/", "/", "y", ".", "JS", "'">>
StmtOther == <<"import", " ", "r", " ", "from", " ", "\"", "s", "\"">>
StmtInner == <<"import", " ", "import", " ", "from", " ", "'",
               "@", "x", "/", "r", ".", "js", "'">>
StmtFrom == <<" ", "from", " ", "'", "@", "x", "/", "y", "'">>
StmtSlash == <<"import", " ", "x", " ", "from", " ", "'", "/", "r", "/", "y", ".", "js", "'">>
StmtNoName == <<"import", " ", "x", " ", "from", " ", "'", "@", "x", "/", "/", "'">>
StmtQuotes == <<"import", " ", "x", " ", "from", " ", "'", "@", "x", "/", "y", "\"">>
StmtDeep == <<"import", " ", "x", " ", "from", " ", "'", "@", "x", "/", "r", "/", "y", "'">>
Stmts == {StmtPlain, StmtMulti, StmtJson, StmtUpper, StmtOther, StmtInner, StmtFrom,
          StmtSlash, StmtNoName, StmtQuotes, StmtDeep}
Texts == {Concat(ss, 1) : ss \in SeqsOf(Stmts, 0, MaxStmts)}

\* a directory holding the one file x.js
OneFile == <<[path |-> <<<<"x", ".", "js">>>>, kind |-> "file"]>>
\* a directory tree: x.js, y/, y/x.js, x.ts, the directory r.js/, x.JS
Tree == <<[path |-> <<<<"x", ".", "js">>>>, kind |-> "file"],
          [path |-> <<<<"y">>>>, kind |-> "dir"],
          [path |-> <<<<"y">>, <<"x", ".", "js">>>>, kind |-> "file"],
          [path |-> <<<<"x", ".", "ts">>>>, kind |-> "file"],
          [path |-> <<<<"r", ".", "js">>>>, kind |-> "dir"],
          [path |-> <<<<"x", ".", "JS">>>>, kind |-> "file"]>>
TreeFiles == {1, 3, 4, 6}
ExtLists == {<<<<"js">>>>, <<<<"js">>, <<"ts">>>>}
ConfrInputs == {<<"y">>, <<"Y">>, <<"n">>}

\* the state main() starts from, for a directory, a command line and file contents
Start(tree, aliases, exts, nosub, perms, contents) ==
    /\ fs = tree
    /\ args_alias = aliases
    /\ args_exts = exts
    /\ no_sub_dirs = nosub
    /\ perm = perms
    /\ disk0 = contents
    /\ disk = contents
    /\ mpAliasPath = <<>>
    /\ pc = "main"
    /\ visited = {}
    /\ handed = <<>>
    /\ cur = 0
    /\ updatedContent = <<>>
    /\ reports = [f \in DOMAIN contents |-> NoReport]
    /\ writes = [f \in DOMAIN contents |-> 0]
    /\ calls = [f \in DOMAIN contents |-> <<>>]

\* command lines of up to MaxAliases --alias options, over one file
InitArgs ==
    \E aliases \in SeqsOf(RawPairs, 1, MaxAliases), p \in {"rw", "ro", "none"} :
        Start(OneFile, aliases, <<<<"js">>>>, FALSE, [f \in {1} |-> p],
              [f \in {1} |-> StmtPlain])

\* file texts of up to MaxStmts pieces, under the tables the pieces refer to
TextArgs == {<<PairXR>>, <<PairXR, PairYS>>, <<PairRRY>>, <<PairRR>>, <<PairEmpty>>,
             <<PairYRoot, PairXS>>, <<PairXR, PairXRS>>}
InitText ==
    \E aliases \in TextArgs, t \in Texts :
        Start(OneFile, aliases, <<<<"js">>>>, FALSE, [f \in {1} |-> "rw"],
              [f \in {1} |-> t])

\* a directory tree, at most one of its files unreadable or unwritable
TreePerms == {[f \in TreeFiles |-> "rw"]}
             \cup {[f \in TreeFiles |-> IF f = g THEN p ELSE "rw"] :
                   g \in TreeFiles, p \in {"ro", "none"}}
InitTree ==
    \E exts \in ExtLists, nosub \in BOOLEAN, perms \in TreePerms,
       t1 \in {StmtPlain, StmtOther}, t3 \in {StmtPlain, StmtOther} :
        Start(Tree, <<PairXR>>, exts, nosub, perms,
              [f \in TreeFiles |-> IF f = 1 THEN t1 ELSE IF f = 3 THEN t3 ELSE StmtMulti])

Init == InitArgs \/ InitText \/ InitTree

(***************************************************************************)
(* The run.                                                                 *)
(***************************************************************************)
\* main(), from the parsed arguments to the confirmation prompt
Main ==
    /\ pc = "main"
    /\ \E order \in Orders(Range(args_alias)) :
        LET built == BuildTable(order, 1, <<>>)
        IN  /\ mpAliasPath' = built.mp
            /\ pc' = IF built.st = "ok" THEN "confirm"
                     ELSE IF built.st = "duplicate" THEN "duplicate"
                     ELSE "IndexError"
    /\ UNCHANGED <<fs, args_alias, args_exts, no_sub_dirs, perm, disk0, disk, visited,
                   handed, cur, updatedContent, reports, writes, calls>>

\* main(), the answer to the prompt
Confirm ==
    /\ pc = "confirm"
    /\ \E confr \in ConfrInputs :
        pc' = IF LowerStr(confr) # <<"y">> THEN "cancelled" ELSE "walk"
    /\ UNCHANGED <<fs, args_alias, args_exts, no_sub_dirs, perm, disk0, disk,
                   mpAliasPath, visited, handed, cur, updatedContent, reports, writes,
                   calls>>

\* _searchFiles: the iterator yields a path that fails the test
Skip ==
    /\ pc = "walk"
    /\ \E e \in Listed(~no_sub_dirs) \ visited :
        /\ ~IsCandidate(e)
        /\ visited' = visited \cup {e}
    /\ UNCHANGED <<fs, args_alias, args_exts, no_sub_dirs, perm, disk0, disk,
                   mpAliasPath, pc, handed, cur, updatedContent, reports, writes, calls>>

\* _searchFiles: the iterator yields a candidate; _replaceAliases up to its write
ReplaceAliases ==
    /\ pc = "walk"
    /\ \E e \in Listed(~no_sub_dirs) \ visited :
        /\ IsCandidate(e)
        /\ visited' = visited \cup {e}
        /\ handed' = Append(handed, e)
        /\ IF perm[e] = "none"
           THEN \* read_text raises
                /\ pc' = "OSError"
                /\ UNCHANGED <<cur, updatedContent, reports, calls>>
           ELSE LET content == disk[e]
                    res == RegexSub(mpAliasPath, content)
                IN  IF res.exc
                    THEN \* with_suffix raises in replaceMatch
                         /\ pc' = "ValueError"
                         /\ UNCHANGED <<cur, updatedContent, reports, calls>>
                    ELSE /\ calls' = [calls EXCEPT ![e] = res.calls]
                         /\ IF ContentChanged(content, res.text)
                            THEN /\ reports' = [reports EXCEPT ![e] =
                                        [printed |-> TRUE,
                                         lines |-> ReportLines(mpAliasPath, res.changes, 1)]]
                                 /\ cur' = e
                                 /\ updatedContent' = res.text
                                 /\ pc' = "open"
                            ELSE /\ pc' = "walk"
                                 /\ UNCHANGED <<cur, updatedContent, reports>>
    /\ UNCHANGED <<fs, args_alias, args_exts, no_sub_dirs, perm, disk0, disk,
                   mpAliasPath, writes>>

\* file.write_text: open(mode='w') truncates the file, or raises
WriteOpen ==
    /\ pc = "open"
    /\ IF perm[cur] = "ro"
       THEN pc' = "OSError" /\ UNCHANGED disk
       ELSE pc' = "write" /\ disk' = [disk EXCEPT ![cur] = <<>>]
    /\ UNCHANGED <<fs, args_alias, args_exts, no_sub_dirs, perm, disk0, mpAliasPath,
                   visited, handed, cur, updatedContent, reports, writes, calls>>

\* file.write_text: the data is written and the file closed; back in the loop
WriteData ==
    /\ pc = "write"
    /\ disk' = [disk EXCEPT ![cur] = updatedContent]
    /\ writes' = [writes EXCEPT ![cur] = @ + 1]
    /\ cur' = 0
    /\ pc' = "walk"
    /\ UNCHANGED <<fs, args_alias, args_exts, no_sub_dirs, perm, disk0, mpAliasPath,
                   visited, handed, updatedContent, reports, calls>>

\* _searchFiles: the iterator is exhausted
WalkEnd ==
    /\ pc = "walk"
    /\ visited = Listed(~no_sub_dirs)
    /\ pc' = "done"
    /\ UNCHANGED <<fs, args_alias, args_exts, no_sub_dirs, perm, disk0, disk,
                   mpAliasPath, visited, handed, cur, updatedContent, reports, writes,
                   calls>>

\* the process is killed
Interrupt ==
    /\ pc \notin Terminal
    /\ pc' = "killed"
    /\ UNCHANGED <<fs, args_alias, args_exts, no_sub_dirs, perm, disk0, disk,
                   mpAliasPath, visited, handed, cur, updatedContent, reports, writes,
                   calls>>

Next == Main \/ Confirm \/ Skip \/ ReplaceAliases \/ WriteOpen \/ WriteData
        \/ WalkEnd \/ Interrupt

Spec == Init /\ [][Next]_vars

(***************************************************************************)
(* Properties.                                                              *)
(***************************************************************************)
\* the alias main() derives from a raw pair
AliasOf(raw) == RStripSlash(Split1(raw)[1])
\* no file has been handed over, reported on or written
NothingTouched ==
    /\ handed = <<>>
    /\ disk = disk0
    /\ \A f \in DOMAIN disk : writes[f] = 0 /\ ~reports[f].printed /\ calls[f] = <<>>
\* _replaceAliases has returned normally for f
Processed(f) ==
    /\ f \in Range(handed)
    /\ cur # f
    /\ pc \in {"walk", "done", "killed"}

\* C1, as claimed: whenever two of the --alias values, equal strings or not,
\* normalize to the same alias, table construction fails and no file is touched:
\* the run never gets past main().
C1_AnyRepeatFails ==
    (\E i, j \in 1..Len(args_alias) :
        i # j /\ AliasOf(args_alias[i]) = AliasOf(args_alias[j]))
    => (pc \in {"main", "duplicate", "IndexError", "killed"} /\ NothingTouched)

\* C1, amended: whenever two different --alias strings normalize to the same
\* alias, table construction fails (the duplicate message, or the IndexError of a
\* pair without a path) and no file is touched; the same string given twice is one
\* element of set(args.alias) and is accepted.
C1_DistinctRepeatFails ==
    (\E i, j \in 1..Len(args_alias) :
        /\ args_alias[i] # args_alias[j]
        /\ AliasOf(args_alias[i]) = AliasOf(args_alias[j]))
    => (pc \in {"main", "duplicate", "IndexError", "killed"} /\ NothingTouched)

\* C1 witness: construction has stopped on the duplicate alias of "@x /r" and "@x/ r/"
C1_Witness ==
    /\ pc = "duplicate"
    /\ args_alias = <<PairXR, PairXR2>>
    /\ NothingTouched

\* C2: a read or write failure on one file is confined to it: when the run has
\* ended, by the end of the walk or by the I/O error, every candidate under the
\* root has been handed to _replaceAliases.
C2_FailureIsolated ==
    pc \in {"done", "OSError"}
    => \A e \in Listed(~no_sub_dirs) : IsCandidate(e) => e \in Range(handed)

\* C4: every entry of the alias table has an alias that does not end with '/',
\* and a path that begins with exactly one '/' and does not end with '/'.
C4_EntryInvariant ==
    \A i \in 1..Len(mpAliasPath) :
        LET a == mpAliasPath[i].alias
            v == mpAliasPath[i].path
        IN  /\ (a = <<>> \/ a[Len(a)] # "/")
            /\ Len(v) >= 1 /\ v[1] = "/"
            /\ (Len(v) < 2 \/ v[2] # "/")
            /\ v[Len(v)] # "/"

\* the aliases of a table can follow a quote only where the text had them: none
\* is empty and none begins with '/'
PlainAliases(mp) ==
    \A i \in 1..Len(mp) : mp[i].alias # <<>> /\ mp[i].alias[1] # "/"
\* no statement rewritten in f holds the word import after its leading keyword
NoInnerImport(f) ==
    \A c \in 1..Len(calls[f]) :
        \A k \in 2..Len(calls[f][c].out) : calls[f][c].out[k] # "import"
\* a second rewrite of the content of f returns it as it is
SecondPassSame(f) ==
    LET again == RegexSub(mpAliasPath, disk[f])
    IN  ~again.exc /\ again.text = disk[f]

EmittedRel(mp, call) ==
    LET head == Len(call.m.stuff) + 6
                + Len(PathStr(PurePosixPath(Lookup(mp, call.m.alias))))
    IN  SubSeq(call.out, head + 1, Len(call.out) - 1)
\* the last '/'-separated component of a path string
LastComponent(s) == From(s, SkipBack(s, Len(s), WordAtoms \cup {".", "@", " ", "\n"}) + 1)
\* the extension of a path string, compared without case, is .json or .js
HasKnownExt(s) ==
    LowerStr(NameSuffix(LastComponent(s))) \in {<<".", "json">>, <<".", "js">>}
\* a path string with its extension replaced by, or when it has none extended
\* with, .js
WithJs(s) ==
    SubSeq(s, 1, Len(s) - Len(NameSuffix(LastComponent(s)))) \o <<".", "js">>
\* the extension policy applied to the path string s
ExtPolicy(s) == IF HasKnownExt(s) THEN s ELSE WithJs(s)

\* C5, as claimed: every rewritten statement carries the matched relative path
\* itself when its extension is .json or .js (any case), and otherwise the matched
\* relative path with only its extension replaced by, or extended with, .js.
C5_ExtensionPolicy ==
    \A f \in DOMAIN calls : \A c \in 1..Len(calls[f]) :
        EmittedRel(mpAliasPath, calls[f][c]) = ExtPolicy(calls[f][c].m.relPath)

\* C5, amended: every rewritten statement carries the matched relative path in
\* PurePosixPath form (runs of '/' collapsed, '.' components and a trailing '/'
\* dropped), as it is when its extension is .json or .js (any case), and
\* otherwise with only its extension replaced by, or extended with, .js.
C5_ExtensionPolicyNormalized ==
    \A f \in DOMAIN calls : \A c \in 1..Len(calls[f]) :
        EmittedRel(mpAliasPath, calls[f][c])
            = ExtPolicy(PathStr(PurePosixPath(calls[f][c].m.relPath)))

\* C5 witness: one file in which "@x/y.ts" became "/r/y.js" and "@x/y.json"
\* stayed "/r/y.json"
C5_Witness ==
    /\ Processed(1)
    /\ Len(calls[1]) = 2
    /\ calls[1][1].m.relPath = <<"/", "y", ".", "ts">>
    /\ EmittedRel(mpAliasPath, calls[1][1]) = <<"/", "y", ".", "js">>
    /\ calls[1][2].m.relPath = <<"/", "y", ".", "json">>
    /\ EmittedRel(mpAliasPath, calls[1][2]) = <<"/", "y", ".", "json">>
    /\ mpAliasPath = <<[alias |-> <<"@", "x">>, path |-> <<"/", "r">>]>>

\* the matched statement's text between its keywords import and from
BindingText(m) ==
    LET afterStuff == m.stuffStart - m.start + 1 + Len(m.stuff)
    IN  SubSeq(m.group0, 2, SkipAll(m.group0, afterStuff, WS) - 1)
\* the returned statement opens and closes with the quote of the matched one
SameQuote(call) ==
    LET g == call.m.group0
        open == Len(g) - Len(call.m.relPath) - Len(call.m.alias) - 1
    IN  /\ g[open] \in Quotes
        /\ g[Len(g)] = g[open]
        /\ call.out[Len(call.m.stuff) + 6] = g[open]
        /\ call.out[Len(call.out)] = g[open]
\* the returned statement is import, then `between`, then from
BetweenIs(out, between) ==
    /\ out[1] = "import"
    /\ SubSeq(out, 2, Len(between) + 1) = between
    /\ Len(out) >= Len(between) + 2
    /\ out[Len(between) + 2] = "from"

\* C6, as claimed: every rewritten statement keeps the quote character of the
\* matched one, and its text between import and from is that of the matched
\* statement, blanks around the bindings included.
C6_QuoteAndBindingsVerbatim ==
    \A f \in DOMAIN calls : \A c \in 1..Len(calls[f]) :
        /\ SameQuote(calls[f][c])
        /\ BetweenIs(calls[f][c].out, BindingText(calls[f][c].m))

\* C6, amended: every rewritten statement keeps the quote character of the
\* matched one and the captured bindings verbatim; each run of blanks around
\* them (after import, before from, after from) comes out as one space.
C6_QuoteAndBindingsKept ==
    \A f \in DOMAIN calls : \A c \in 1..Len(calls[f]) :
        /\ SameQuote(calls[f][c])
        /\ BetweenIs(calls[f][c].out, <<" ">> \o calls[f][c].m.stuff \o <<" ">>)
        /\ calls[f][c].out[Len(calls[f][c].m.stuff) + 5] = " "

\* C6 witness: the single-quoted and the double-quoted, two-line statement were
\* both rewritten in one file
C6_Witness ==
    /\ Processed(1)
    /\ disk0[1] = StmtPlain \o StmtMulti
    /\ Len(calls[1]) = 2
    /\ calls[1][1].m.quote = "'" /\ calls[1][2].m.quote = "\""
    /\ calls[1][2].m.stuff = <<"x">>

\* the text holds an import-from statement whose quoted path starts with an
\* alias of the table followed by '/': a quote followed by the alias and '/',
\* somewhere after the words import and from
HasAliasImport(mp, t) ==
    \E q \in 1..Len(t) :
        /\ t[q] \in Quotes
        /\ \E a \in 1..Len(mp) :
            /\ IsPrefixAt(t, q + 1, mp[a].alias)
            /\ q + 1 + Len(mp[a].alias) <= Len(t)
            /\ t[q + 1 + Len(mp[a].alias)] = "/"
        /\ \E k \in 1..q - 1 :
            /\ t[k] = "from"
            /\ \E i \in 1..k - 1 : t[i] = "import"
\* f is as it was: no statement of it was rewritten, nothing is pending for it,
\* nothing was written and nothing reported
Untouched(f) ==
    /\ disk[f] = disk0[f]
    /\ calls[f] = <<>>
    /\ cur # f
    /\ writes[f] = 0
    /\ ~reports[f].printed

\* C7: a file whose text holds no import-from statement with a quoted path that
\* starts with a configured alias and '/' is never changed, written or
\* reported, and its rewritten content is its content.
C7_NoMatchUntouched ==
    \A f \in DOMAIN disk :
        ~HasAliasImport(mpAliasPath, disk0[f])
        => (Untouched(f) /\ RegexSub(mpAliasPath, disk0[f]).text = disk0[f])

\* C7 witness: a file holding only `import r from "s"` has been processed under
\* the table @x -> /r
C7_Witness ==
    /\ pc = "done"
    /\ handed = <<1>>
    /\ disk0[1] = StmtOther
    /\ mpAliasPath = <<[alias |-> <<"@", "x">>, path |-> <<"/", "r">>]>>
    /\ Untouched(1)

\* the aliases of the statements rewritten in f, in text order
SubstitutedAliases(f) == [c \in 1..Len(calls[f]) |-> calls[f][c].m.alias]
ReportedAliases(f) == [i \in 1..Len(reports[f].lines) |-> reports[f].lines[i].alias]
InTextOrder(f) ==
    \A c \in 1..Len(calls[f]) - 1 : calls[f][c].m.end < calls[f][c + 1].m.start

\* C8: a file is written at most once and only with rewritten content that
\* differs from the content read; a report is printed only for such a file and
\* lists the alias of every rewritten statement, in text order, repeats
\* included; a processed file was written exactly when the rewritten content
\* differs, and otherwise nothing was written or reported for it, rewritten
\* statements or not.
C8_WriteAndReport ==
    \A f \in DOMAIN disk :
        LET updated == RegexSub(mpAliasPath, disk0[f]).text
        IN  /\ writes[f] <= 1
            /\ writes[f] = 1 => (updated # disk0[f] /\ disk[f] = updated
                                  /\ reports[f].printed)
            /\ reports[f].printed =>
                /\ updated # disk0[f]
                /\ Len(calls[f]) >= 1
                /\ InTextOrder(f)
                /\ ReportedAliases(f) = SubstitutedAliases(f)
            /\ Processed(f) =>
                /\ writes[f] = 1 <=> updated # disk0[f]
                /\ updated = disk0[f] => (disk[f] = disk0[f] /\ ~reports[f].printed)

\* C8 witness: a written file whose report names the alias @x twice
C8_Witness ==
    /\ Processed(1)
    /\ writes[1] = 1
    /\ ReportedAliases(1) = <<<<"@", "x">>, <<"@", "x">>>>

\* C9: when the run is killed, every file holds either its original content
\* or its fully rewritten content.
C9_OldOrNew ==
    pc = "killed" =>
        \A f \in DOMAIN disk :
            \/ disk[f] = disk0[f]
            \/ disk[f] = RegexSub(mpAliasPath, disk0[f]).text

\* a regular file, below the root directly unless sub-directories are included,
\* whose name ends with a dot and one of the configured extensions
Expected(e) ==
    /\ fs[e].kind = "file"
    /\ no_sub_dirs => Len(fs[e].path) = 1
    /\ \E i \in 1..Len(args_exts) :
        LET ext == args_exts[i]
            name == EntryName(e)
        IN  /\ Len(name) > Len(ext) + 1
            /\ From(name, Len(name) - Len(ext)) = <<".">> \o ext

\* C10: the files handed to _replaceAliases are expected files, each handed
\* once; the iterator passes over no expected file it yields; no other file is
\* rewritten, written or reported; and when the walk has ended the files handed
\* over are exactly the expected files.
C10_CandidateSet ==
    /\ \A i \in 1..Len(handed) : Expected(handed[i])
    /\ \A i, j \in 1..Len(handed) : handed[i] = handed[j] => i = j
    /\ \A e \in visited : Expected(e) => e \in Range(handed)
    /\ \A f \in DOMAIN disk : ~Expected(f) => (f \notin Range(handed) /\ Untouched(f))
    /\ pc = "done" => Range(handed) = {e \in Entries : Expected(e)}

\* C10 witness: the walk of the tree with sub-directories has ended with x.js,
\* y/x.js and x.ts handed over, and neither the directory r.js nor x.JS
C10_Witness ==
    /\ pc = "done"
    /\ fs = Tree
    /\ ~no_sub_dirs
    /\ Range(handed) = {1, 3, 4}
    /\ Untouched(6)

\* the rewrite of text t under the table main() builds when it takes the raw
\* pairs in the order `order`
RewriteUnder(order, t) == RegexSub(BuildTable(order, 1, <<>>).mp, t)

\* C11: the content a processed file ends with is the rewrite of its original
\* text under the table built in any order of the --alias values that gives a
\* table: the order in which set(args.alias) is iterated, and with it the order
\* of the alternatives in the pattern, makes no difference to the rewritten
\* text, also when one alias is a '/'-delimited prefix of another.
C11_OrderIndependent ==
    \A f \in DOMAIN disk :
        Processed(f) =>
            \A order \in Orders(Range(args_alias)) :
                BuildTable(order, 1, <<>>).st = "ok"
                => /\ ~RewriteUnder(order, disk0[f]).exc
                   /\ RewriteUnder(order, disk0[f]).text = disk[f]
====
